---- MODULE Spec2Model ----
(***************************************************************************)
(* State-machine model of shred's ParticleAtom (js/model/ParticleAtom.js): *)
(* the three particle collections, the derived count properties, the ten   *)
(* electron shell positions, the nucleus configuration and the             *)
(* userControlled removal listeners.                                       *)
(*                                                                         *)
(* Units.  Electron-shell coordinates, particle positions and the atom     *)
(* position are integer view coordinates (the code's numbers).  Lengths of *)
(* the nucleus layout are in thousandths of a view coordinate, angles in   *)
(* units of pi/AngleDen.  A Vector2 is the record [x, y, r, a]: the point  *)
(* (x, y) displaced by the polar offset (r, a), so that a translation adds *)
(* to x and y and leaves the polar part alone.                             *)
(***************************************************************************)
EXTENDS Integers, Sequences, FiniteSets, TLC

(***************************************************************************)
(* Bounds of the model.                                                    *)
(***************************************************************************)
\* longest proton and neutron collection the add operations are explored to
MaxNucleons == 2
\* longest electron collection the add operations are explored to
MaxElectrons == 3
\* most removal listeners of the atom linked to one particle at a time
MaxLinked == 2
\* number of operations a run is explored to
MaxOps == 4
\* longest proton and neutron collection of the runs that fill the nucleus
MaxFill == 5

(***************************************************************************)
(* Program constants.                                                      *)
(***************************************************************************)
NUM_ELECTRON_POSITIONS == 10
innerElectronShellRadius == 85
outerElectronShellRadius == 130
numSlotsInOuterShell == 8
\* ShredConstants.NUCLEON_RADIUS, in thousandths
NUCLEON_RADIUS == 3000
\* angles are integer multiples of pi/AngleDen (2*3*5*7*11*13)
AngleDen == 30030

Null == "null"

Protons == {"p1", "p2"}
Neutrons == {"n1", "n2"}
Electrons == {"e1", "e2", "e3"}
\* a particle whose type tag is none of the three
Strangers == {"x1"}
\* the electrons that fill the shell, in the order they are added, and those
\* of them that only the runs filling the shell use
ShellFillers == <<"e1", "e2", "e3", "e4", "e5", "e6", "e7", "e8", "e9", "e10", "e11">>
MoreElectrons == {ShellFillers[i] : i \in 1 .. Len(ShellFillers)} \ Electrons
\* the protons and the neutrons that fill the nucleus, in the order they are
\* added, and those of them that only the runs filling the nucleus use
ProtonFillers == <<"p1", "p2", "p3", "p4", "p5", "p6">>
NeutronFillers == <<"n1", "n2", "n3", "n4", "n5", "n6">>
MoreProtons == {ProtonFillers[i] : i \in 1 .. Len(ProtonFillers)} \ Protons
MoreNeutrons == {NeutronFillers[i] : i \in 1 .. Len(NeutronFillers)} \ Neutrons
Particles ==
    Protons \cup MoreProtons \cup Neutrons \cup MoreNeutrons \cup Electrons \cup MoreElectrons
        \cup Strangers

TypeOf(p) ==
    IF p \in Protons \cup MoreProtons THEN "proton"
    ELSE IF p \in Neutrons \cup MoreNeutrons THEN "neutron"
    ELSE IF p \in Electrons \cup MoreElectrons THEN "electron"
    ELSE "muon"

Brands == {"phet", "phet-io"}
AddModes == {"proximal", "random"}

(***************************************************************************)
(* Vector2                                                                 *)
(***************************************************************************)
Vec(x, y) == [x |-> x, y |-> y, r |-> 0, a |-> 0]
\* centre (x, y) plus radius*(cos angle, sin angle); a zero radius is the centre
Polar(x, y, radius, angle) ==
    [x |-> x, y |-> y, r |-> radius, a |-> IF radius = 0 THEN 0 ELSE angle]
ZERO == Vec(0, 0)
plus(v, t) == [v EXCEPT !.x = v.x + t.x, !.y = v.y + t.y]
minus(v, w) == Vec(v.x - w.x, v.y - w.y)
\* squared Vector2.distance of two points without polar part
DistSq(v, w) == (v.x - w.x) * (v.x - w.x) + (v.y - w.y) * (v.y - w.y)
\* squared Vector2.magnitude
MagSq(v) == v.x * v.x + v.y * v.y

(***************************************************************************)
(* electronShellPositions: slot 0 and 1 on the inner shell, 2..9 on the    *)
(* outer shell, 45 degrees apart.  The outer points are the lattice points *)
(* of the circle of radius 130 nearest to the code's angles (30.5 degrees  *)
(* for the code's 27), so that every outer slot is exactly at distance 130 *)
(* from the origin, as cos^2 + sin^2 = 1 makes them in the code.           *)
(***************************************************************************)
SlotIds == 0 .. (NUM_ELECTRON_POSITIONS - 1)
SlotPosition ==
    [i \in SlotIds |->
        CASE i = 0 -> Vec(innerElectronShellRadius, 0)
          [] i = 1 -> Vec(0 - innerElectronShellRadius, 0)
          [] i = 2 -> Vec(112, 66)
          [] i = 3 -> Vec(32, 126)
          [] i = 4 -> Vec(-66, 112)
          [] i = 5 -> Vec(-126, 32)
          [] i = 6 -> Vec(-112, -66)
          [] i = 7 -> Vec(-32, -126)
          [] i = 8 -> Vec(66, -112)
          [] i = 9 -> Vec(126, -32)]

\* Math.abs( position.magnitude() - innerElectronShellRadius ) < 1E-5
IsInnerSlot(i) ==
    MagSq(SlotPosition[i]) = innerElectronShellRadius * innerElectronShellRadius
\* Utils.roughlyEqual( position.magnitude(), outerElectronShellRadius, 1E-5 )
IsOuterSlot(i) ==
    MagSq(SlotPosition[i]) = outerElectronShellRadius * outerElectronShellRadius
InnerSlots == {i \in SlotIds : IsInnerSlot(i)}
OuterSlots == {i \in SlotIds : IsOuterSlot(i)}

(***************************************************************************)
(* Arrays (ObservableArray over a JavaScript array)                        *)
(***************************************************************************)
contains(arr, p) == \E i \in 1 .. Len(arr) : arr[i] = p
indexOf(arr, p) == CHOOSE i \in 1 .. Len(arr) : arr[i] = p /\ \A j \in 1 .. (i - 1) : arr[j] # p
\* ObservableArray.remove: the first matching reference is spliced out
removeFirst(arr, p) ==
    IF contains(arr, p)
    THEN [i \in 1 .. (Len(arr) - 1) |-> IF i < indexOf(arr, p) THEN arr[i] ELSE arr[i + 1]]
    ELSE arr

(***************************************************************************)
(* reconfigureNucleus, lines 455-470: the interleaved nucleon list.        *)
(* neutronsToAdd is a double; the model keeps it exactly, as the numerator *)
(* acc of acc / protons.length.  The double differs from the exact value   *)
(* in the comparison neutronsToAdd >= 1 only where the exact value is 1    *)
(* and the accumulated double is one ulp below it: RoundedBelow lists      *)
(* those comparisons, <<neutrons.length, protons.length, iteration>>, as   *)
(* IEEE-754 double arithmetic evaluates them for up to six of each.        *)
(***************************************************************************)
RoundedBelow ==
    {<<1, 6, 6>>, <<2, 3, 3>>, <<3, 5, 5>>, <<4, 3, 3>>, <<4, 6, 3>>, <<4, 6, 6>>, <<6, 5, 5>>}

\* the comparison with 2 in the place of 1
NeutronsToAddGE2(n, p, acc, k) == IF p = 0 THEN TRUE ELSE acc >= 2 * p

\* neutronsToAdd >= 1, in iteration k of the outer loop (n / 0 is Infinity)
NeutronsToAddGE1(n, p, acc, k) ==
    IF p = 0 THEN TRUE
    ELSE IF acc = p /\ <<n, p, k>> \in RoundedBelow THEN FALSE
    ELSE acc >= p

RECURSIVE InnerLoop(_, _, _, _, _, _)
\* while ( neutronsToAdd >= 1 && neutronIndex < this.neutrons.length )
InnerLoop(ns, np, out, ni, acc, k) ==
    IF NeutronsToAddGE1(Len(ns), np, acc, k) /\ ni < Len(ns)
    THEN InnerLoop(ns, np, Append(out, ns[ni + 1]), ni + 1, acc - np, k)
    ELSE [out |-> out, ni |-> ni, acc |-> acc]

RECURSIVE OuterLoop(_, _, _, _, _, _, _)
\* while ( nucleons.length < this.neutrons.length + this.protons.length )
OuterLoop(ps, ns, out, pi, ni, acc, k) ==
    IF Len(out) >= Len(ns) + Len(ps) THEN out
    ELSE LET inner == InnerLoop(ns, Len(ps), out, ni, acc + Len(ns), k)
             out2 == IF pi < Len(ps) THEN Append(inner.out, ps[pi + 1]) ELSE inner.out
             pi2 == IF pi < Len(ps) THEN pi + 1 ELSE pi
         IN  OuterLoop(ps, ns, out2, pi2, inner.ni, inner.acc, k + 1)

\* a list of all the nucleons that takes each collection from its end
newestFirst(ps, ns) ==
    [i \in 1 .. Len(ns) + Len(ps) |->
        IF i <= Len(ns) THEN ns[Len(ns) + 1 - i] ELSE ps[Len(ps) + Len(ns) + 1 - i]]

Interleave(ps, ns) == OuterLoop(ps, ns, <<>>, 0, 0, 0, 1)

\* a pass that pushes the neutrons and no proton
lengthWithoutProton(len, neutronsPushed, pi, np) == len + neutronsPushed

\* nucleons.length after a pass of the outer loop that started with len
\* elements and protonIndex pi, and pushed neutronsPushed neutrons
lengthAfterPass(len, neutronsPushed, pi, np) ==
    len + neutronsPushed + (IF pi < np THEN 1 ELSE 0)

RECURSIVE outerLoopPasses(_, _, _, _, _, _, _, _)
\* the number of passes the outer loop makes from its k-th on until its
\* condition fails, counted from k - 1; -1 if it makes more than limit passes
outerLoopPasses(ps, ns, len, pi, ni, acc, k, limit) ==
    IF len >= Len(ns) + Len(ps) THEN k - 1
    ELSE IF k > limit THEN -1
    ELSE LET inner == InnerLoop(ns, Len(ps), <<>>, ni, acc + Len(ns), k)
         IN  outerLoopPasses(ps, ns, lengthAfterPass(len, inner.ni - ni, pi, Len(ps)),
                             IF pi < Len(ps) THEN pi + 1 ELSE pi, inner.ni, inner.acc,
                             k + 1, limit)

\* the passes of the outer loop for the arrays ps and ns, looked at for one
\* pass more than there are nucleons
InterleavePasses(ps, ns) == outerLoopPasses(ps, ns, 0, 0, 0, 0, 1, Len(ps) + Len(ns) + 1)

(***************************************************************************)
(* reconfigureNucleus, lines 472-573: the layout.  A placement is          *)
(* [n: index into nucleons (from 1), v: destination, z: layer].            *)
(***************************************************************************)
nucleonRadius == NUCLEON_RADIUS

\* LinearFunction( 3, 10, 2.4, 1.35, clamp )( nucleonRadius ), in thousandths
scaleFactor(radius) ==
    IF radius <= 3000 THEN 2400
    ELSE IF radius >= 10000 THEN 1350
    ELSE 2400 - (150 * (radius - 3000)) \div 1000

\* Math.floor( placementRadius * Math.PI / nucleonRadius ), pi as 355/113
numAtRadius(placementRadius, radius) == (placementRadius * 355) \div (113 * radius)

RECURSIVE RingLoop(_, _, _, _, _, _, _, _, _, _)
\* for ( var i = 0; i < nucleons.length; i++ ) of the generalized algorithm
RingLoop(i, count, cx, cy, placementRadius, numAtThisRadius, level, placementAngle, placementAngleDelta, acc) ==
    IF i > count THEN [placements |-> acc, placementRadius |-> placementRadius]
    ELSE LET placed == Append(acc, [n |-> i, v |-> Polar(cx, cy, placementRadius, placementAngle),
                                    z |-> level])
             left == numAtThisRadius - 1
         IN  IF left > 0
             THEN RingLoop(i + 1, count, cx, cy, placementRadius, left, level,
                           placementAngle + placementAngleDelta, placementAngleDelta, placed)
             ELSE LET level2 == level + 1
                      radius2 == placementRadius
                                   + ((nucleonRadius * scaleFactor(nucleonRadius)) \div 1000) \div level2
                      num2 == numAtRadius(radius2, nucleonRadius)
                  IN  RingLoop(i + 1, count, cx, cy, radius2, num2, level2,
                               placementAngle + (2 * AngleDen) \div 5 + level2 * AngleDen,
                               (2 * AngleDen) \div num2, placed)

\* the destinations, layers and radius for `count` nucleons around (cx, cy)
Layout(count, cx, cy) ==
    CASE count = 0 -> [placements |-> <<>>, radius |-> nucleonRadius]
      [] count = 1 ->
           [placements |-> <<[n |-> 1, v |-> Polar(cx, cy, 0, 0), z |-> 0]>>,
            radius |-> nucleonRadius]
      [] count = 2 ->
           LET angle == (2 * AngleDen) \div 5
           IN  [placements |-> <<[n |-> 1, v |-> Polar(cx, cy, nucleonRadius, angle), z |-> 0],
                                [n |-> 2, v |-> Polar(cx, cy, nucleonRadius, angle + AngleDen), z |-> 0]>>,
                radius |-> nucleonRadius * 2]
      [] count = 3 ->
           LET angle == (7 * 2 * AngleDen) \div 10
               distFromCenter == (nucleonRadius * 1155) \div 1000
           IN  [placements |->
                    <<[n |-> 1, v |-> Polar(cx, cy, distFromCenter, angle), z |-> 0],
                      [n |-> 2, v |-> Polar(cx, cy, distFromCenter, angle + (2 * AngleDen) \div 3), z |-> 0],
                      [n |-> 3, v |-> Polar(cx, cy, distFromCenter, angle + (4 * AngleDen) \div 3), z |-> 0]>>,
                radius |-> distFromCenter + nucleonRadius]
      [] count = 4 ->
           LET angle == (14 * 2 * AngleDen) \div 10
               \* nucleonRadius * 2 * Math.cos( Math.PI / 3 )
               distFromCenter == (nucleonRadius * 2) \div 2
           IN  [placements |->
                    <<[n |-> 1, v |-> Polar(cx, cy, nucleonRadius, angle), z |-> 0],
                      [n |-> 3, v |-> Polar(cx, cy, nucleonRadius, angle + AngleDen), z |-> 0],
                      [n |-> 2, v |-> Polar(cx, cy, distFromCenter, angle + AngleDen \div 2), z |-> 1],
                      [n |-> 4, v |-> Polar(cx, cy, distFromCenter, angle + AngleDen \div 2 + AngleDen), z |-> 1]>>,
                radius |-> distFromCenter + nucleonRadius]
      [] OTHER ->
           LET ring == RingLoop(1, count, cx, cy, 0, 1, 0, 0, 0, <<>>)
           IN  [placements |-> ring.placements, radius |-> ring.placementRadius + nucleonRadius]

(***************************************************************************)
(* State                                                                   *)
(***************************************************************************)
VARIABLES
    brand,                  \* phet.chipper.brand
    electronAddMode,        \* this.electronAddMode
    positionProperty,
    nucleusOffsetProperty,
    atom,                   \* the atom's collections, derived properties, shell, and the
                            \* fields of the particles that the atom's methods write
    atomB,                  \* a second ParticleAtom that is handed the same particles,
                            \* or Null in the runs of one atom
    userControlled,         \* particle.userControlledProperty, per particle
    last,                   \* the last operation: [op, arg, outcome]
    observed,               \* what the listeners of the derived properties saw during it
    ops,                    \* number of operations the run has left
    table,                  \* a PeriodicTableNode and the proton count of its numberAtom
    shellView               \* an ElectronShellView and the particles it is handed

vars == <<brand, electronAddMode, positionProperty, nucleusOffsetProperty, atom, atomB,
          userControlled, last, observed, ops, table, shellView>>

\* where each particle lies before it is first moved
InitialPosition ==
    [p \in Particles |->
        CASE p = "e1" -> Vec(100, 10)
          [] p = "e2" -> Vec(-100, 10)
          [] p = "e3" -> Vec(120, 60)
          [] OTHER -> Vec(0, -200)]

\* the positions the atom is moved to, and the nucleus offsets it is given
AtomPositions == {ZERO, Vec(40, 0)}
NucleusOffsets == {ZERO, Vec(0, 10)}

\* the state after construction, lines 38-240
NewAtom ==
    [protons |-> <<>>, neutrons |-> <<>>, electrons |-> <<>>,
     protonCount |-> 0, neutronCount |-> 0, electronCount |-> 0,
     charge |-> 0, massNumber |-> 0, particleCount |-> 0,
     nucleusRadius |-> nucleonRadius,
     shell |-> [i \in SlotIds |-> Null],
     position |-> InitialPosition,
     destination |-> InitialPosition,
     zLayer |-> [p \in Particles |-> 0],
     \* number of the atom's listeners linked to particle.userControlledProperty
     linked |-> [p \in Particles |-> 0],
     \* whether particle.particleAtomRemovalListener is set
     removalListener |-> [p \in Particles |-> FALSE],
     \* whether the operation in progress has thrown
     thrown |-> FALSE,
     \* the values of the six derived properties as the listeners notified
     \* during the operation in progress found them
     seen |-> {}]

(***************************************************************************)
(* The derived properties, lines 78-137.  Each one is recomputed by the    *)
(* notification of the properties it depends on and by nothing else.       *)
(***************************************************************************)
chargeOfSum(pc, ec) == pc + ec
chargeOf(pc, ec) == pc - ec
massNumberOf(pc, nc) == pc + nc
particleCountOf(pc, nc, ec) == pc + nc + ec

\* Property.set of a derived property calls its listeners before it returns:
\* they find the six properties as they are at that moment
notify(s) ==
    [s EXCEPT !.seen = @ \cup {[protonCount |-> s.protonCount,
                                neutronCount |-> s.neutronCount,
                                electronCount |-> s.electronCount,
                                charge |-> s.charge,
                                massNumber |-> s.massNumber,
                                particleCount |-> s.particleCount]}]

\* the listeners that the three DerivedProperty constructors link to the
\* count properties, in the order of their construction
chargeUpdated(s) ==
    notify([s EXCEPT !.charge = chargeOf(s.protonCount, s.electronCount)])
massNumberUpdated(s) ==
    notify([s EXCEPT !.massNumber = massNumberOf(s.protonCount, s.neutronCount)])
particleCountUpdated(s) ==
    notify([s EXCEPT !.particleCount =
                        particleCountOf(s.protonCount, s.neutronCount, s.electronCount)])

\* protons.lengthProperty changed: protonCountProperty is set, its listeners
\* run in the order they were linked (charge, massNumber, particleCount, then
\* those linked from outside)
protonsLengthChanged(s) ==
    notify(particleCountUpdated(massNumberUpdated(chargeUpdated(
        [s EXCEPT !.protonCount = Len(s.protons)]))))
\* neutrons.lengthProperty changed
neutronsLengthChanged(s) ==
    notify(particleCountUpdated(massNumberUpdated(
        [s EXCEPT !.neutronCount = Len(s.neutrons)])))
\* electrons.lengthProperty changed
electronsLengthChanged(s) ==
    notify(particleCountUpdated(chargeUpdated(
        [s EXCEPT !.electronCount = Len(s.electrons)])))

getWeight(s) == s.protonCount + s.neutronCount
getCharge(s) == s.protonCount - s.electronCount

containsParticle(s, p) ==
    contains(s.protons, p) \/ contains(s.neutrons, p) \/ contains(s.electrons, p)

(***************************************************************************)
(* reconfigureNucleus, lines 445-574                                       *)
(***************************************************************************)
RECURSIVE Place(_, _, _, _)
\* the destinationProperty.set / zLayerProperty.set calls, in the code's order
Place(s, nucleons, placements, i) ==
    IF i > Len(placements) THEN s
    ELSE LET pl == placements[i]
             q == nucleons[pl.n]
         IN  Place([s EXCEPT !.destination[q] = pl.v, !.zLayer[q] = pl.z],
                   nucleons, placements, i + 1)

\* a configurator that adds the radius it finds to the radius of the layout
reconfigureNucleusGrowing(s, centre) ==
    LET nucleons == Interleave(s.protons, s.neutrons)
        layout == Layout(Len(nucleons), centre.x, centre.y)
        placed == Place(s, nucleons, layout.placements, 1)
    IN  [placed EXCEPT !.nucleusRadius = s.nucleusRadius + layout.radius]

reconfigureNucleus(s, centre) ==
    LET nucleons == Interleave(s.protons, s.neutrons)
        layout == Layout(Len(nucleons), centre.x, centre.y)
        placed == Place(s, nucleons, layout.placements, 1)
    IN  [placed EXCEPT !.nucleusRadius = layout.radius]

(***************************************************************************)
(* Sorting.  Array.prototype.sort (stable) and _.sortBy (stable) by a key; *)
(* phet.joist.random.shuffle as the choice of the rotation of the list,    *)
(* which lets each element come first.                                     *)
(***************************************************************************)
RECURSIVE insertSorted(_, _, _, _)
\* x put behind every element of sorted[i..] whose key is not greater
insertSorted(sorted, x, key, i) ==
    IF i > Len(sorted) THEN Append(sorted, x)
    ELSE IF key[sorted[i]] <= key[x] THEN insertSorted(sorted, x, key, i + 1)
    ELSE SubSeq(sorted, 1, i - 1) \o <<x>> \o SubSeq(sorted, i, Len(sorted))

RECURSIVE sortFrom(_, _, _, _)
sortFrom(seq, key, i, sorted) ==
    IF i > Len(seq) THEN sorted
    ELSE sortFrom(seq, key, i + 1, insertSorted(sorted, seq[i], key, 1))

SortBy(seq, key) == sortFrom(seq, key, 1, <<>>)

shuffle(seq, k) ==
    LET n == Len(seq)
    IN  [i \in 1 .. n |-> seq[((i - 1 + k) % n) + 1]]

RECURSIVE FilterSlots(_, _, _)
\* the slots of i..9 that satisfy keep, in index order (Array.filter, _.filter)
FilterSlots(keep, i, acc) ==
    IF i >= NUM_ELECTRON_POSITIONS THEN acc
    ELSE FilterSlots(keep, i + 1, IF keep[i] THEN Append(acc, i) ELSE acc)

(***************************************************************************)
(* The electrons' item-removed listener, lines 175-202                     *)
(***************************************************************************)
\* the occupied outer slots, nearest to slot i first
occupiedOuterShellPositions(shell, i) ==
    SortBy(FilterSlots([j \in SlotIds |-> shell[j] # Null /\ IsOuterSlot(j)], 0, <<>>),
           [j \in SlotIds |-> DistSq(SlotPosition[j], SlotPosition[i])])

\* the body of the forEach for slot i
clearSlot(s, electron, i) ==
    IF s.shell[i] # electron THEN s
    ELSE LET cleared == [s EXCEPT !.shell[i] = Null]
             outer == occupiedOuterShellPositions(cleared.shell, i)
         IN  IF IsInnerSlot(i) /\ Len(outer) > 0
             THEN [cleared EXCEPT !.shell[i] = cleared.shell[outer[1]],
                                  !.shell[outer[1]] = Null,
                                  !.destination[cleared.shell[outer[1]]] = SlotPosition[i]]
             ELSE cleared

RECURSIVE electronRemoved(_, _, _)
\* self.electronShellPositions.forEach( ... ), from slot i on
electronRemoved(s, electron, i) ==
    IF i >= NUM_ELECTRON_POSITIONS THEN s
    ELSE electronRemoved(clearSlot(s, electron, i), electron, i + 1)

(***************************************************************************)
(* ObservableArray.push and ObservableArray.remove on the three arrays,    *)
(* with the listeners of lengthProperty and of item-removed.               *)
(***************************************************************************)
pushProton(s, p) == protonsLengthChanged([s EXCEPT !.protons = Append(s.protons, p)])
pushNeutron(s, p) == neutronsLengthChanged([s EXCEPT !.neutrons = Append(s.neutrons, p)])
pushElectron(s, p) == electronsLengthChanged([s EXCEPT !.electrons = Append(s.electrons, p)])
\* a removal of a proton that configures the nucleus of an atom at the origin
removeProtonReconfiguring(s, p) ==
    reconfigureNucleus(protonsLengthChanged([s EXCEPT !.protons = removeFirst(s.protons, p)]), ZERO)
removeProton(s, p) == protonsLengthChanged([s EXCEPT !.protons = removeFirst(s.protons, p)])
removeNeutron(s, p) == neutronsLengthChanged([s EXCEPT !.neutrons = removeFirst(s.neutrons, p)])
removeElectron(s, p) ==
    electronRemoved(electronsLengthChanged([s EXCEPT !.electrons = removeFirst(s.electrons, p)]),
                    p, 0)

(***************************************************************************)
(* addParticle, lines 263-342                                              *)
(***************************************************************************)
\* every slot, open or not
openPositionsUnfiltered(s) == FilterSlots([i \in SlotIds |-> TRUE], 0, <<>>)

\* this.electronShellPositions.filter( ... electron === null ), lines 299-301
openPositions(s) == FilterSlots([i \in SlotIds |-> s.shell[i] = Null], 0, <<>>)

\* the open positions in the order of the second sort alone
sortedByCentreOnly(s, p, mode, atomPosition, k) ==
    SortBy(openPositions(s), [i \in SlotIds |-> DistSq(atomPosition, SlotPosition[i])])

\* the open positions in the order of the two sorts, lines 302-318
sortedOpenPositions(s, p, mode, atomPosition, k) ==
    LET first == IF mode = "proximal"
                 THEN SortBy(openPositions(s),
                             [i \in SlotIds |-> DistSq(s.position[p], SlotPosition[i])])
                 ELSE shuffle(openPositions(s), k)
    IN  SortBy(first, [i \in SlotIds |-> DistSq(atomPosition, SlotPosition[i])])

\* lazyLink of a new removal listener, and particleAtomRemovalListener set to it
linkListener(s, p) ==
    [s EXCEPT !.linked[p] = @ + 1, !.removalListener[p] = TRUE]

\* the duplicate check of line 267
alreadyAdded(s, p, br) == br = "phet-io" /\ containsParticle(s, p)

\* the nucleon branch with the nucleus configured before the push
addNucleonEarly(s, p, centre) ==
    LET listening == reconfigureNucleus(linkListener(s, p), centre)
    IN  IF TypeOf(p) = "proton" THEN pushProton(listening, p) ELSE pushNeutron(listening, p)

addNucleon(s, p, centre) ==
    LET listening == linkListener(s, p)
        pushed == IF TypeOf(p) = "proton" THEN pushProton(listening, p)
                  ELSE pushNeutron(listening, p)
    IN  reconfigureNucleus(pushed, centre)

\* the electron branch that returns quietly when no slot is open
addElectronQuiet(s, p, mode, atomPosition, k) ==
    LET pushed == pushElectron(s, p)
        sorted == sortedOpenPositions(pushed, p, mode, atomPosition, k)
    IN  IF Len(sorted) = 0 THEN pushed
        ELSE linkListener([pushed EXCEPT !.shell[sorted[1]] = p,
                                         !.destination[p] = SlotPosition[sorted[1]]], p)

addElectron(s, p, mode, atomPosition, k) ==
    LET pushed == pushElectron(s, p)
        sorted == sortedOpenPositions(pushed, p, mode, atomPosition, k)
    IN  IF Len(sorted) = 0
        \* the assertion fails or sortedOpenPositions[ 0 ] is undefined: a throw
        THEN [pushed EXCEPT !.thrown = TRUE]
        ELSE linkListener([pushed EXCEPT !.shell[sorted[1]] = p,
                                         !.destination[p] = SlotPosition[sorted[1]]], p)

\* addParticle that ignores a particle of a type it does not know
addParticleLenient(s, p, br, mode, atomPosition, centre, k) ==
    IF alreadyAdded(s, p, br) THEN s
    ELSE IF TypeOf(p) = "proton" \/ TypeOf(p) = "neutron" THEN addNucleon(s, p, centre)
    ELSE IF TypeOf(p) = "electron" THEN addElectron(s, p, mode, atomPosition, k)
    ELSE s

addParticle(s, p, br, mode, atomPosition, centre, k) ==
    IF alreadyAdded(s, p, br) THEN s
    ELSE IF TypeOf(p) = "proton" \/ TypeOf(p) = "neutron" THEN addNucleon(s, p, centre)
    ELSE IF TypeOf(p) = "electron" THEN addElectron(s, p, mode, atomPosition, k)
    ELSE [s EXCEPT !.thrown = TRUE]

(***************************************************************************)
(* removeParticle, lines 349-368.  asserts: whether assertions are enabled *)
(* in the build.  Without them, unlink of an undefined listener unlinks    *)
(* nothing.                                                                *)
(***************************************************************************)
unlinkListener(s, p) ==
    [s EXCEPT !.linked[p] = IF s.removalListener[p] /\ @ > 0 THEN @ - 1 ELSE @,
              !.removalListener[p] = FALSE]

\* removeParticle that returns quietly for a particle that is in no collection
removeParticleQuiet(s, p, asserts) ==
    LET removed == IF contains(s.protons, p) THEN removeProton(s, p)
                   ELSE IF contains(s.neutrons, p) THEN removeNeutron(s, p)
                   ELSE IF contains(s.electrons, p) THEN removeElectron(s, p)
                   ELSE s
    IN  IF asserts /\ ~removed.removalListener[p] THEN [removed EXCEPT !.thrown = TRUE]
        ELSE unlinkListener(removed, p)

removeParticle(s, p, asserts) ==
    LET removed == IF contains(s.protons, p) THEN removeProton(s, p)
                   ELSE IF contains(s.neutrons, p) THEN removeNeutron(s, p)
                   ELSE IF contains(s.electrons, p) THEN removeElectron(s, p)
                   ELSE [s EXCEPT !.thrown = TRUE]
    IN  IF removed.thrown THEN removed
        ELSE IF asserts /\ ~removed.removalListener[p] THEN [removed EXCEPT !.thrown = TRUE]
        ELSE unlinkListener(removed, p)

(***************************************************************************)
(* Two atoms, this and that, that are handed the same particles.  A        *)
(* particle's position, destination and layer are the particle's, and so   *)
(* is particleAtomRemovalListener: removalListener[p] of an atom says that *)
(* the field holds a listener of that atom.  The operations give the pair  *)
(* [this, that] after the call on this.                                    *)
(***************************************************************************)
\* that, with the particles as the call on this has left them
particlesAsIn(that, this) ==
    [that EXCEPT !.position = this.position, !.destination = this.destination,
                 !.zLayer = this.zLayer]

\* lines 288 and 337 overwrite the listener the other atom has put in the field
addParticleOfTwo(this, that, p, br, mode, atomPosition, centre, k) ==
    LET added == addParticle(this, p, br, mode, atomPosition, centre, k)
        overwritten == IF added.linked[p] > this.linked[p]
                       THEN [that EXCEPT !.removalListener[p] = FALSE]
                       ELSE that
    IN  [this |-> added, that |-> particlesAsIn(overwritten, added)]

\* lines 350-362: the particle removed from the array that contains it
removeFromArrays(s, p) ==
    IF contains(s.protons, p) THEN removeProton(s, p)
    ELSE IF contains(s.neutrons, p) THEN removeNeutron(s, p)
    ELSE IF contains(s.electrons, p) THEN removeElectron(s, p)
    ELSE [s EXCEPT !.thrown = TRUE]

\* lines 363-367 find in the field the listener of whichever atom set it last
removeParticleOfTwo(this, that, p, asserts) ==
    IF this.removalListener[p] \/ ~that.removalListener[p]
    THEN LET removed == removeParticle(this, p, asserts)
         IN  [this |-> removed, that |-> particlesAsIn(that, removed)]
    ELSE LET removed == removeFromArrays(this, p)
         IN  [this |-> removed,
              that |-> particlesAsIn(IF removed.thrown THEN that ELSE unlinkListener(that, p),
                                     removed)]

(***************************************************************************)
(* extractParticle, lines 376-406                                          *)
(***************************************************************************)
ParticleTypes == {"proton", "neutron", "electron", "muon"}

arrayOf(s, particleType) ==
    CASE particleType = "proton" -> s.protons
      [] particleType = "neutron" -> s.neutrons
      [] particleType = "electron" -> s.electrons
      [] OTHER -> <<>>

\* the particle the switch selects, or Null
extracted(s, particleType) ==
    LET arr == arrayOf(s, particleType)
    IN  IF Len(arr) > 0 THEN arr[Len(arr)] ELSE Null

extractParticle(s, particleType, asserts) ==
    IF particleType \notin {"proton", "neutron", "electron"} THEN [s EXCEPT !.thrown = TRUE]
    ELSE IF extracted(s, particleType) # Null
         THEN removeParticle(s, extracted(s, particleType), asserts)
         ELSE s

(***************************************************************************)
(* clear, lines 412-417.  ObservableArray.forEach is Array.prototype       *)
(* .forEach on the live array: index k runs to the length the array had at *)
(* the start, and an index the array no longer has is skipped.             *)
(***************************************************************************)
RECURSIVE forEachRemove(_, _, _, _, _)
forEachRemove(s, particleType, k, len, asserts) ==
    IF k > len \/ s.thrown THEN s
    ELSE IF k > Len(arrayOf(s, particleType))
         THEN forEachRemove(s, particleType, k + 1, len, asserts)
         ELSE forEachRemove(removeParticle(s, arrayOf(s, particleType)[k], asserts),
                            particleType, k + 1, len, asserts)

clear(s, asserts) ==
    LET a == forEachRemove(s, "proton", 1, Len(s.protons), asserts)
        b == forEachRemove(a, "neutron", 1, Len(a.neutrons), asserts)
    IN  forEachRemove(b, "electron", 1, Len(b.electrons), asserts)

(***************************************************************************)
(* moveAllParticlesToDestination, lines 423-427                            *)
(***************************************************************************)
\* the first two forEach alone: the electrons stay where they are
moveNucleonsToDestination(s) ==
    [s EXCEPT !.position = [q \in Particles |->
                               IF contains(s.protons, q) \/ contains(s.neutrons, q)
                               THEN s.destination[q]
                               ELSE s.position[q]]]

moveAllParticlesToDestination(s) ==
    [s EXCEPT !.position = [q \in Particles |->
                               IF containsParticle(s, q) THEN s.destination[q]
                               ELSE s.position[q]]]

(***************************************************************************)
(* translateParticle and the links of nucleusOffsetProperty and            *)
(* positionProperty, lines 204-236                                         *)
(***************************************************************************)
translateParticle(s, q, translation) ==
    IF s.position[q] = s.destination[q]
    THEN [s EXCEPT !.position[q] = plus(s.position[q], translation),
                   !.destination[q] = plus(s.position[q], translation)]
    ELSE [s EXCEPT !.destination[q] = plus(s.destination[q], translation)]

RECURSIVE translateEach(_, _, _, _)
translateEach(s, arr, i, translation) ==
    IF i > Len(arr) THEN s
    ELSE translateEach(translateParticle(s, arr[i], translation), arr, i + 1, translation)

\* a translation that takes the electrons along
translateAllParticles(s, newOffset, oldOffset) ==
    LET translation == minus(newOffset, oldOffset)
    IN  translateEach(translateEach(translateEach(s, s.protons, 1, translation),
                                    s.neutrons, 1, translation),
                      s.electrons, 1, translation)

translateNucleons(s, newOffset, oldOffset) ==
    LET translation == minus(newOffset, oldOffset)
    IN  translateEach(translateEach(s, s.protons, 1, translation), s.neutrons, 1, translation)

(***************************************************************************)
(* nucleonRemovedListener, lines 276-284, and electronRemovedListener,     *)
(* lines 325-332: what one linked listener does when userControlledProperty*)
(* changes to the value userControlledValue.                               *)
(***************************************************************************)
unlinkSelf(s, p) ==
    [s EXCEPT !.zLayer[p] = 0,
              !.linked[p] = @ - 1,
              !.removalListener[p] = FALSE]

\* the watcher without its call of reconfigureNucleus
nucleonRemovedListenerStale(s, p, userControlledValue, centre) ==
    IF userControlledValue /\ contains(arrayOf(s, TypeOf(p)), p)
    THEN unlinkSelf(IF TypeOf(p) = "proton" THEN removeProton(s, p) ELSE removeNeutron(s, p), p)
    ELSE s

\* nucleonRemovedListener, lines 276-285
nucleonRemovedListener(s, p, userControlledValue, centre) ==
    IF userControlledValue /\ contains(arrayOf(s, TypeOf(p)), p)
    THEN LET removed == IF TypeOf(p) = "proton" THEN removeProton(s, p) ELSE removeNeutron(s, p)
         IN  unlinkSelf(reconfigureNucleus(removed, centre), p)
    ELSE s

\* the electron watcher that acts on a change to either value
electronRemovedListenerAnyChange(s, p, userControlledValue) ==
    IF contains(s.electrons, p)
    THEN unlinkSelf(removeElectron(s, p), p)
    ELSE s

\* electronRemovedListener, lines 325-333
electronRemovedListener(s, p, userControlledValue) ==
    IF userControlledValue /\ contains(s.electrons, p)
    THEN unlinkSelf(removeElectron(s, p), p)
    ELSE s

RECURSIVE notifyListeners(_, _, _, _, _)
\* the n listeners the atom had linked when the notification started, in turn
notifyListeners(s, p, userControlledValue, centre, n) ==
    IF n = 0 THEN s
    ELSE notifyListeners(IF TypeOf(p) = "electron"
                         THEN electronRemovedListener(s, p, userControlledValue)
                         ELSE nucleonRemovedListener(s, p, userControlledValue, centre),
                         p, userControlledValue, centre, n - 1)

(***************************************************************************)
(* PeriodicTableNode                                                       *)
(***************************************************************************)
\* the proton counts the numberAtom is given: 0 .. MaxProtonCount
MaxProtonCount == 120

\* the heaviest element of the table, line 91
HeaviestElement == 118

\* the 2D array that defines the table structure, lines 18-26
POPULATED_CELLS ==
    <<<<0, 17>>,
      <<0, 1, 12, 13, 14, 15, 16, 17>>,
      <<0, 1, 12, 13, 14, 15, 16, 17>>,
      <<0, 1, 2, 3, 4, 5, 6, 7, 8, 9, 10, 11, 12, 13, 14, 15, 16, 17>>,
      <<0, 1, 2, 3, 4, 5, 6, 7, 8, 9, 10, 11, 12, 13, 14, 15, 16, 17>>,
      <<0, 1, 2, 3, 4, 5, 6, 7, 8, 9, 10, 11, 12, 13, 14, 15, 16, 17>>,
      <<0, 1, 2, 3, 4, 5, 6, 7, 8, 9, 10, 11, 12, 13, 14, 15, 16, 17>>>>

RECURSIVE cellsInRows(_)
\* the number of cells the first i rows hold
cellsInRows(i) == IF i = 0 THEN 0 ELSE cellsInRows(i - 1) + Len(POPULATED_CELLS[i])

\* the elementIndex that the k-th new PeriodicTableCell is given, lines 68-81:
\* elementIndex++ for each cell, 58 replaced by 72 and 90 by 104
elementIndexOfCell(k) ==
    LET pastLanthanides == IF k >= 58 THEN k + (72 - 58) ELSE k
    IN  IF pastLanthanides >= 90 THEN pastLanthanides + (104 - 90) ELSE pastLanthanides

\* this.cells, lines 54-83, one cell for each entry of POPULATED_CELLS in
\* the order of the two loops; cells[k] here is this.cells[ k - 1 ] there
cells ==
    [k \in 1 .. cellsInRows(Len(POPULATED_CELLS)) |-> [atomicNumber |-> elementIndexOfCell(k)]]

\* the highlight listener that leaves the cell it highlighted before as it is
highlightKeepingTheLast(t, protonCount) ==
    IF protonCount > 0 /\ protonCount <= HeaviestElement
    THEN LET fromHafnium == IF protonCount >= 72 THEN protonCount - 14 ELSE protonCount
             elementIndex == IF protonCount >= 104 /\ protonCount <= HeaviestElement
                             THEN fromHafnium - 14 ELSE fromHafnium
         IN  [t EXCEPT !.highlightedCell = elementIndex,
                       !.front = elementIndex,
                       !.highlighted = @ \cup {elementIndex}]
    ELSE t

\* the listener of numberAtom.protonCountProperty, lines 87-102;
\* highlightedCell is the place of the cell in cells, 0 for null;
\* setHighlighted( b ) of a cell makes it a highlighted cell or not
highlight(t, protonCount) ==
    LET cleared == IF t.highlightedCell # 0
                   THEN [t EXCEPT !.highlighted = @ \ {t.highlightedCell}]
                   ELSE t
    IN  IF protonCount > 0 /\ protonCount <= HeaviestElement
        THEN LET fromHafnium == IF protonCount >= 72 THEN protonCount - 14 ELSE protonCount
                 elementIndex == IF protonCount >= 104 /\ protonCount <= HeaviestElement
                                 THEN fromHafnium - 14 ELSE fromHafnium
             IN  [cleared EXCEPT !.highlightedCell = elementIndex,
                                 !.front = elementIndex,
                                 !.highlighted = @ \cup {elementIndex}]
        ELSE cleared

\* new PeriodicTableNode( numberAtom ) for a numberAtom of protonCount
\* protons: link calls the listener with the value the property has
PeriodicTableNode(protonCount) ==
    highlight([protonCount |-> protonCount, highlightedCell |-> 0,
               front |-> Len(cells), highlighted |-> {}], protonCount)

(***************************************************************************)
(* ElectronShellView                                                       *)
(***************************************************************************)
\* handleAccessibleDrag is called at most MaxDrags times in a run
MaxDrags == 2

\* the particles that are handed to handleAccessibleDrag
Dragged == {"p1", "e1"}

\* the key codes of Input that the keydown listener tells apart, and one
\* that it does not
ArrowKeys == {"KEY_DOWN_ARROW", "KEY_RIGHT_ARROW", "KEY_UP_ARROW", "KEY_LEFT_ARROW"}
PlaceKeys == {"KEY_ENTER", "KEY_SPACE", "KEY_TAB", "KEY_ESCAPE"}
KeyCodes == ArrowKeys \cup PlaceKeys \cup {"KEY_SHIFT"}

\* particleDropLocation of this.optionNodes[ i ], lines 427-432, for
\* centerOption, innerRing, outerRing
particleDropLocation ==
    [i \in 0 .. 2 |->
        CASE i = 0 -> Vec(0, 0)
          [] i = 1 -> Vec(innerElectronShellRadius, 0)
          [] i = 2 -> Vec(outerElectronShellRadius, 0)]

\* the state after new ElectronShellView( atom ) for an atom of no particle,
\* lines 316-476, with the particles and what the view writes of them. A
\* listener is named by the particle and the number of the call of
\* handleAccessibleDrag that made it. placed and settled keep, for the
\* properties, the particles for which a place key was handled, ever and
\* since handleAccessibleDrag was last called for them.
NewShellView ==
    [particleCount |-> 0,
     focusable |-> FALSE,
     focus |-> "elsewhere",
     timeouts |-> 0,
     currentOptionIndex |-> 0,
     highlightedOption |-> 0,
     activeDescendant |-> 0,
     optionSelectedListeners |-> <<>>,
     optionHighlightedListeners |-> <<>>,
     calls |-> 0,
     position |-> [p \in Dragged |-> InitialPosition[p]],
     userControlled |-> [p \in Dragged |-> FALSE],
     placed |-> {},
     settled |-> {}]

\* Emitter.removeListener
removeListener(listeners, listener) ==
    SelectSeq(listeners, LAMBDA l : l # listener)

\* optionHighlightedListener, lines 494-496
optionHighlightedListener(v, listener, node) ==
    [v EXCEPT !.position[listener.particle] = particleDropLocation[node]]

\* the listener that leaves its optionHighlightedListener with the emitter
optionSelectedListenerAlone(v, listener, keyCode) ==
    [v EXCEPT !.optionSelectedListeners = removeListener(@, listener),
              !.userControlled[listener.particle] = FALSE,
              !.focusable = FALSE,
              !.timeouts = IF keyCode # "KEY_TAB" THEN @ + 1 ELSE @,
              !.placed = @ \cup {listener.particle},
              !.settled = @ \cup {listener.particle}]

\* optionSelectedListener, lines 500-521
optionSelectedListener(v, listener, keyCode) ==
    [v EXCEPT !.optionSelectedListeners = removeListener(@, listener),
              !.optionHighlightedListeners = removeListener(@, listener),
              !.userControlled[listener.particle] = FALSE,
              !.focusable = FALSE,
              !.timeouts = IF keyCode # "KEY_TAB" THEN @ + 1 ELSE @,
              !.placed = @ \cup {listener.particle},
              !.settled = @ \cup {listener.particle}]

RECURSIVE emitHighlighted(_, _, _, _)
\* optionHighlightedEmitter.emit1( node ): the listeners the emitter had when
\* the call began, in their order
emitHighlighted(listeners, i, v, node) ==
    IF i > Len(listeners) THEN v
    ELSE emitHighlighted(listeners, i + 1, optionHighlightedListener(v, listeners[i], node), node)

RECURSIVE emitSelected(_, _, _, _)
\* optionSelectedEmitter.emit1( keyCode ): a listener that removes itself
\* during the call does not keep a later one from being called
emitSelected(listeners, i, v, keyCode) ==
    IF i > Len(listeners) THEN v
    ELSE emitSelected(listeners, i + 1, optionSelectedListener(v, listeners[i], keyCode), keyCode)

\* the keydown listener, lines 436-468
keydown(v, keyCode) ==
    LET isDownRight == keyCode \in {"KEY_DOWN_ARROW", "KEY_RIGHT_ARROW"}
        isUpLeft == keyCode \in {"KEY_UP_ARROW", "KEY_LEFT_ARROW"}
    IN  IF isDownRight \/ isUpLeft
        THEN LET index == IF isDownRight THEN (v.currentOptionIndex + 1) % 3
                          ELSE IF v.currentOptionIndex - 1 < 0 THEN 3 - 1
                          ELSE v.currentOptionIndex - 1
                 moved == [v EXCEPT !.currentOptionIndex = index,
                                    !.activeDescendant = index,
                                    !.highlightedOption = index]
             IN  emitHighlighted(moved.optionHighlightedListeners, 1, moved, index)
        ELSE IF keyCode \in {"KEY_ENTER", "KEY_SPACE", "KEY_TAB", "KEY_ESCAPE"}
        THEN emitSelected(v.optionSelectedListeners, 1, v, keyCode)
        ELSE v

\* handleAccessibleDrag( particle, bucketFront ), lines 486-523
handleAccessibleDrag(v, particle) ==
    LET listener == [particle |-> particle, call |-> v.calls + 1]
    IN  [v EXCEPT !.focusable = TRUE,
                  !.focus = "shellView",
                  !.optionHighlightedListeners = Append(@, listener),
                  !.optionSelectedListeners = Append(@, listener),
                  !.calls = @ + 1,
                  !.settled = @ \ {particle}]

(***************************************************************************)
(* The operations as actions                                               *)
(***************************************************************************)
centre == plus(positionProperty, nucleusOffsetProperty)

Outcome(s) == IF s.thrown THEN "error" ELSE "ok"
Settle(s) == [s EXCEPT !.thrown = FALSE, !.seen = {}]

\* one more operation on the atom, while the run has operations left; the
\* views of the model show atoms of their own
Tick == ops > 0 /\ ops' = ops - 1 /\ UNCHANGED <<table, shellView>>

\* the state after construction, but for electronAddMode
ConstructedAtom ==
    /\ brand \in Brands
    /\ positionProperty = ZERO
    /\ nucleusOffsetProperty = ZERO
    /\ atom = NewAtom
    /\ atomB = Null
    /\ userControlled = [p \in Particles |-> FALSE]
    /\ last = [op |-> "new", arg |-> Null, outcome |-> "ok"]
    /\ observed = {}

\* the atom, and the two views as they are constructed for a numberAtom of
\* no proton and an atom of no particle of their own
Constructed ==
    /\ ConstructedAtom
    /\ table = PeriodicTableNode(0)
    /\ shellView = NewShellView

Init == electronAddMode = "proximal" /\ Constructed /\ ops = MaxOps

\* the shuffles that matter: one where the code does not shuffle
ShuffleChoices(p) ==
    IF TypeOf(p) = "electron" /\ electronAddMode = "random" THEN SlotIds ELSE {0}

AddParticle(p) ==
    /\ Tick
    /\ Len(arrayOf(atom, TypeOf(p))) < (IF TypeOf(p) = "electron" THEN MaxElectrons ELSE MaxNucleons)
    /\ atom.linked[p] < MaxLinked
    /\ \E k \in ShuffleChoices(p) :
          LET s == addParticle(atom, p, brand, electronAddMode, positionProperty, centre, k)
          IN  /\ atom' = Settle(s)
          /\ observed' = s.seen
              /\ last' = [op |-> "addParticle", arg |-> p,
                          outcome |-> IF alreadyAdded(atom, p, brand) THEN "ignored"
                                      ELSE Outcome(s)]
    /\ UNCHANGED <<atomB, brand, electronAddMode, positionProperty, nucleusOffsetProperty,
                   userControlled>>

RemoveParticle(p) ==
    /\ Tick
    /\ \E asserts \in BOOLEAN :
          LET s == removeParticle(atom, p, asserts)
          IN  /\ atom' = Settle(s)
          /\ observed' = s.seen
              /\ last' = [op |-> "removeParticle", arg |-> p, outcome |-> Outcome(s)]
    /\ UNCHANGED <<atomB, brand, electronAddMode, positionProperty, nucleusOffsetProperty,
                   userControlled>>

ExtractParticle(particleType) ==
    /\ Tick
    /\ \E asserts \in BOOLEAN :
          LET s == extractParticle(atom, particleType, asserts)
          IN  /\ atom' = Settle(s)
          /\ observed' = s.seen
              \* arg: the particle returned, or null
              /\ last' = [op |-> "extractParticle",
                          arg |-> IF particleType \in {"proton", "neutron", "electron"}
                                  THEN extracted(atom, particleType) ELSE Null,
                          outcome |-> Outcome(s),
                          type |-> particleType]
    /\ UNCHANGED <<atomB, brand, electronAddMode, positionProperty, nucleusOffsetProperty,
                   userControlled>>

Clear ==
    /\ Tick
    /\ \E asserts \in BOOLEAN :
          LET s == clear(atom, asserts)
          IN  /\ atom' = Settle(s)
          /\ observed' = s.seen
              /\ last' = [op |-> "clear", arg |-> Null, outcome |-> Outcome(s)]
    /\ UNCHANGED <<atomB, brand, electronAddMode, positionProperty, nucleusOffsetProperty,
                   userControlled>>

MoveAllParticlesToDestination ==
    /\ Tick
    /\ atom' = moveAllParticlesToDestination(atom)
    /\ observed' = {}
    /\ last' = [op |-> "moveAllParticlesToDestination", arg |-> Null, outcome |-> "ok"]
    /\ UNCHANGED <<atomB, brand, electronAddMode, positionProperty, nucleusOffsetProperty,
                   userControlled>>

\* positionProperty.set( v ): the link's listener runs when the value changes
SetPosition(v) ==
    /\ Tick
    /\ v # positionProperty
    /\ positionProperty' = v
    /\ atom' = translateNucleons(atom, v, positionProperty)
    /\ observed' = {}
    /\ last' = [op |-> "positionProperty.set", arg |-> Null, outcome |-> "ok"]
    /\ UNCHANGED <<atomB, brand, electronAddMode, nucleusOffsetProperty, userControlled>>

SetNucleusOffset(v) ==
    /\ Tick
    /\ v # nucleusOffsetProperty
    /\ nucleusOffsetProperty' = v
    /\ atom' = translateNucleons(atom, v, nucleusOffsetProperty)
    /\ observed' = {}
    /\ last' = [op |-> "nucleusOffsetProperty.set", arg |-> Null, outcome |-> "ok"]
    /\ UNCHANGED <<atomB, brand, electronAddMode, positionProperty, userControlled>>

\* particle.userControlledProperty.set( v ) by the user-input code
SetUserControlled(p, v) ==
    /\ Tick
    /\ v # userControlled[p]
    \* one pointer: the user holds one particle at a time
    /\ v => \A q \in Particles : ~userControlled[q]
    /\ userControlled' = [userControlled EXCEPT ![p] = v]
    /\ LET s == notifyListeners(atom, p, v, centre, atom.linked[p])
       IN  atom' = Settle(s) /\ observed' = s.seen
    /\ last' = [op |-> "userControlledProperty.set", arg |-> p,
                outcome |-> IF v THEN "true" ELSE "false"]
    /\ UNCHANGED <<atomB, brand, electronAddMode, positionProperty, nucleusOffsetProperty>>

\* addParticle of the first electron of ShellFillers that is not in the atom
AddNextElectron ==
    /\ Tick
    /\ \E i \in 1 .. Len(ShellFillers) :
          /\ ~contains(atom.electrons, ShellFillers[i])
          /\ \A j \in 1 .. i - 1 : contains(atom.electrons, ShellFillers[j])
          /\ LET p == ShellFillers[i]
                 s == addParticle(atom, p, brand, electronAddMode, positionProperty, centre, 0)
             IN  /\ atom' = Settle(s)
             /\ observed' = s.seen
                 /\ last' = [op |-> "addParticle", arg |-> p, outcome |-> Outcome(s)]
    /\ UNCHANGED <<atomB, brand, electronAddMode, positionProperty, nucleusOffsetProperty,
                   userControlled>>

\* the first particle of fillers that is not in arr, or Null
nextFiller(fillers, arr) ==
    IF \A i \in 1 .. Len(fillers) : contains(arr, fillers[i]) THEN Null
    ELSE fillers[CHOOSE i \in 1 .. Len(fillers) :
                    /\ ~contains(arr, fillers[i])
                    /\ \A j \in 1 .. i - 1 : contains(arr, fillers[j])]

\* addParticle of the first proton, or neutron, that is not in the atom
AddNextNucleon(particleType) ==
    /\ Tick
    /\ Len(arrayOf(atom, particleType)) < MaxFill
    /\ LET p == nextFiller(IF particleType = "proton" THEN ProtonFillers ELSE NeutronFillers,
                           arrayOf(atom, particleType))
           s == addParticle(atom, p, brand, electronAddMode, positionProperty, centre, 0)
       IN  /\ p # Null
           /\ atom' = Settle(s)
           /\ observed' = s.seen
           /\ last' = [op |-> "addParticle", arg |-> p, outcome |-> Outcome(s)]
    /\ UNCHANGED <<atomB, brand, electronAddMode, positionProperty, nucleusOffsetProperty,
                   userControlled>>

\* reconfigureNucleus() called from outside; after: the operation before it
ReconfigureNucleus ==
    /\ Tick
    /\ atom' = reconfigureNucleus(atom, centre)
    /\ observed' = {}
    /\ last' = [op |-> "reconfigureNucleus", arg |-> Null, outcome |-> "ok",
                after |-> last.op]
    /\ UNCHANGED <<atomB, brand, electronAddMode, positionProperty, nucleusOffsetProperty,
                   userControlled>>

\* the two atoms of the runs of two atoms
Atoms == {"A", "B"}

\* addParticle( p ) of atom A or of atom B, which stays at the origin
AddParticleTo(which, p) ==
    /\ Tick
    /\ LET this == IF which = "A" THEN atom ELSE atomB
           that == IF which = "A" THEN atomB ELSE atom
           pair == addParticleOfTwo(this, that, p, brand, "proximal",
                                    IF which = "A" THEN positionProperty ELSE ZERO,
                                    IF which = "A" THEN centre ELSE ZERO, 0)
       IN  /\ Len(arrayOf(this, TypeOf(p))) < MaxNucleons
           /\ this.linked[p] < MaxLinked
           /\ atom' = Settle(IF which = "A" THEN pair.this ELSE pair.that)
           /\ atomB' = Settle(IF which = "A" THEN pair.that ELSE pair.this)
           /\ observed' = pair.this.seen
           /\ last' = [op |-> "addParticle", arg |-> p,
                       outcome |-> IF alreadyAdded(this, p, brand) THEN "ignored"
                                   ELSE Outcome(pair.this),
                       on |-> which]
    /\ UNCHANGED <<brand, electronAddMode, positionProperty, nucleusOffsetProperty,
                   userControlled>>

\* removeParticle( p ) of atom A or of atom B
RemoveParticleFrom(which, p) ==
    /\ Tick
    /\ \E asserts \in BOOLEAN :
          LET this == IF which = "A" THEN atom ELSE atomB
              that == IF which = "A" THEN atomB ELSE atom
              pair == removeParticleOfTwo(this, that, p, asserts)
          IN  /\ atom' = Settle(IF which = "A" THEN pair.this ELSE pair.that)
              /\ atomB' = Settle(IF which = "A" THEN pair.that ELSE pair.this)
              /\ observed' = pair.this.seen
              /\ last' = [op |-> "removeParticle", arg |-> p, outcome |-> Outcome(pair.this),
                          on |-> which]
    /\ UNCHANGED <<brand, electronAddMode, positionProperty, nucleusOffsetProperty,
                   userControlled>>

\* numberAtom.protonCountProperty.set( n ): the property notifies its
\* listener when the value is a new one
SetProtonCount(n) ==
    /\ n # table.protonCount
    /\ table' = highlight([table EXCEPT !.protonCount = n], n)
    /\ UNCHANGED <<brand, electronAddMode, positionProperty, nucleusOffsetProperty, atom,
                   atomB, userControlled, last, observed, ops, shellView>>

\* what a step of the shell view leaves alone
ViewStep ==
    UNCHANGED <<brand, electronAddMode, positionProperty, nucleusOffsetProperty, atom,
                atomB, userControlled, observed, ops, table>>

\* shellView.handleAccessibleDrag( p, bucketFront ) by the bucket's input code
HandleAccessibleDrag(p) ==
    /\ shellView.calls < MaxDrags
    /\ shellView' = handleAccessibleDrag(shellView, p)
    /\ last' = [op |-> "handleAccessibleDrag", arg |-> p, outcome |-> "ok"]
    /\ ViewStep

\* a keydown event reaches the view's listener
KeyDown(keyCode) ==
    /\ shellView' = keydown(shellView, keyCode)
    /\ last' = [op |-> "keydown", arg |-> Null,
                outcome |-> IF keyCode \in ArrowKeys THEN "arrow"
                            ELSE IF keyCode \in PlaceKeys THEN "place" ELSE "other"]
    /\ ViewStep

\* particle.userControlledProperty.set( true ) by the input code that picks
\* the particle up
PickUp(p) ==
    /\ ~shellView.userControlled[p]
    /\ shellView' = [shellView EXCEPT !.userControlled[p] = TRUE]
    /\ last' = [op |-> "userControlledProperty.set", arg |-> p, outcome |-> "true"]
    /\ ViewStep

\* atom.particleCountProperty changes to n, heard by the listener of lines 344-346
SetParticleCount(n) ==
    /\ n # shellView.particleCount
    /\ shellView' = [shellView EXCEPT !.particleCount = n, !.focusable = n > 0]
    /\ last' = [op |-> "particleCountProperty.set", arg |-> Null, outcome |-> "ok"]
    /\ ViewStep

\* a timeout of line 519 fires: bucketFront.focus()
BucketFrontFocus ==
    /\ shellView.timeouts > 0
    /\ shellView' = [shellView EXCEPT !.timeouts = @ - 1, !.focus = "bucketFront"]
    /\ last' = [op |-> "bucketFront.focus", arg |-> Null, outcome |-> "ok"]
    /\ ViewStep

\* the particles of the runs that mix the three types
Mixed == {"p1", "p2", "n1", "e1", "e2", "x1"}

\* membership of the three collections
Next ==
    \/ \E p \in Mixed : AddParticle(p)
    \/ \E p \in Mixed : RemoveParticle(p)
    \/ \E t \in ParticleTypes : ExtractParticle(t)
    \/ Clear
    \/ \E p \in Mixed, v \in BOOLEAN : SetUserControlled(p, v)

Spec == Init /\ [][Next]_vars

\* the electron shell alone, for an atom that is moved
NextShell ==
    \/ \E p \in Electrons : AddParticle(p)
    \/ \E p \in Electrons : RemoveParticle(p)
    \/ ExtractParticle("electron")
    \/ Clear
    \/ \E v \in AtomPositions : SetPosition(v)

\* electronAddMode is 'proximal' after construction; a subtype sets 'random'
InitShell == electronAddMode \in AddModes /\ Constructed /\ ops = MaxOps

SpecShell == InitShell /\ [][NextShell]_vars

\* the electron shell in the default mode, for runs one operation longer
InitShellProximal == electronAddMode = "proximal" /\ Constructed /\ ops = MaxOps + 1

SpecShellProximal == InitShellProximal /\ [][NextShell]_vars

\* the electron shell filled to its last slot and beyond, in the default mode
NextFill ==
    \/ AddNextElectron
    \/ ExtractParticle("electron")
    \/ \E v \in AtomPositions : SetPosition(v)

\* runs long enough for an eleventh addParticle and a few operations more
InitFill ==
    electronAddMode = "proximal" /\ Constructed /\ ops = NUM_ELECTRON_POSITIONS + MaxOps - 2

SpecFill == InitFill /\ [][NextFill]_vars

\* the nucleus of an atom that is moved, with nucleons moving and at rest
NextTranslate ==
    \/ \E p \in Protons \cup Neutrons : AddParticle(p)
    \/ \E p \in Protons \cup Neutrons : RemoveParticle(p)
    \/ MoveAllParticlesToDestination
    \/ \E v \in AtomPositions : SetPosition(v)
    \/ \E v \in NucleusOffsets : SetNucleusOffset(v)

SpecTranslate == Init /\ [][NextTranslate]_vars

\* two atoms and the particles that are handed to both
NextTwo ==
    \/ \E which \in Atoms, p \in {"p1", "n1", "e1"} : AddParticleTo(which, p)
    \/ \E which \in Atoms, p \in {"p1", "n1", "e1"} : RemoveParticleFrom(which, p)

\* the state after the construction of the two atoms
InitTwo ==
    /\ brand \in Brands
    /\ electronAddMode = "proximal"
    /\ positionProperty = ZERO
    /\ nucleusOffsetProperty = ZERO
    /\ atom = NewAtom
    /\ atomB = NewAtom
    /\ userControlled = [p \in Particles |-> FALSE]
    /\ last = [op |-> "new", arg |-> Null, outcome |-> "ok"]
    /\ observed = {}
    /\ ops = MaxOps
    /\ table = PeriodicTableNode(0)
    /\ shellView = NewShellView

SpecTwo == InitTwo /\ [][NextTwo]_vars

\* particles of the three types added, removed and moved to their destinations
NextMove ==
    \/ \E p \in {"p1", "n1", "e1", "e2"} : AddParticle(p)
    \/ \E p \in {"p1", "n1", "e1", "e2"} : RemoveParticle(p)
    \/ MoveAllParticlesToDestination
    \/ \E v \in AtomPositions : SetPosition(v)

SpecMove == Init /\ [][NextMove]_vars

\* nucleons and electrons in an atom whose position and nucleus offset change
NextFrame ==
    \/ \E p \in {"p1", "n1"} \cup Electrons : AddParticle(p)
    \/ \E p \in Electrons : RemoveParticle(p)
    \/ MoveAllParticlesToDestination
    \/ \E v \in AtomPositions : SetPosition(v)
    \/ \E v \in NucleusOffsets : SetNucleusOffset(v)

SpecFrame == Init /\ [][NextFrame]_vars

\* the nucleus filled to two rings, configured by addParticle and from outside;
\* p1 and n1 can be added when they are members
NextConfigure ==
    \/ \E t \in {"proton", "neutron"} : AddNextNucleon(t)
    \/ \E p \in {"p1", "n1"} : AddParticle(p)
    \/ ReconfigureNucleus
    \/ \E v \in AtomPositions : SetPosition(v)

\* runs long enough to fill both collections and to configure the nucleus twice
InitConfigure == electronAddMode = "proximal" /\ Constructed /\ ops = 2 * MaxFill + 2

SpecConfigure == InitConfigure /\ [][NextConfigure]_vars

\* the periodic table of a numberAtom whose proton count changes
NextTable == \E n \in 0 .. MaxProtonCount : SetProtonCount(n)

\* the table is constructed for a numberAtom of any proton count
InitTable ==
    /\ electronAddMode = "proximal"
    /\ ConstructedAtom
    /\ ops = MaxOps
    /\ table \in {PeriodicTableNode(n) : n \in 0 .. MaxProtonCount}
    /\ shellView = NewShellView

SpecTable == InitTable /\ [][NextTable]_vars

\* the shell view while particles are placed with the keyboard
NextShellView ==
    \/ \E p \in Dragged : HandleAccessibleDrag(p)
    \/ \E keyCode \in KeyCodes : KeyDown(keyCode)
    \/ \E p \in Dragged : PickUp(p)
    \/ \E n \in 0 .. 1 : SetParticleCount(n)
    \/ BucketFrontFocus

\* the view reads no brand
InitShellView == brand = "phet" /\ Init

SpecShellView == InitShellView /\ [][NextShellView]_vars

\* the nucleus alone
NextNucleus ==
    \/ \E p \in Protons \cup Neutrons : AddParticle(p)
    \/ \E p \in Protons \cup Neutrons : RemoveParticle(p)
    \/ \E t \in {"proton", "neutron"} : ExtractParticle(t)
    \/ Clear
    \/ \E p \in Protons \cup Neutrons, v \in BOOLEAN : SetUserControlled(p, v)

SpecNucleus == Init /\ [][NextNucleus]_vars

(***************************************************************************)
(* Properties                                                              *)
(***************************************************************************)
Occupied(shell) == {i \in SlotIds : shell[i] # Null}
Members(arr) == {arr[i] : i \in 1 .. Len(arr)}
\* an addParticle that got past the duplicate check and did not throw
AddedNow(P) ==
    last'.op = "addParticle" /\ last'.arg \in P /\ last'.outcome = "ok"

\* C1: after every operation the three counts are the lengths of their
\* collections, charge = protonCount - electronCount, massNumber =
\* protonCount + neutronCount, particleCount is the sum of the three, and
\* getWeight() and getCharge() return massNumber and charge.
C1_DerivedCounts ==
    /\ atom.protonCount = Len(atom.protons)
    /\ atom.neutronCount = Len(atom.neutrons)
    /\ atom.electronCount = Len(atom.electrons)
    /\ atom.charge = atom.protonCount - atom.electronCount
    /\ atom.massNumber = atom.protonCount + atom.neutronCount
    /\ atom.particleCount = atom.protonCount + atom.neutronCount + atom.electronCount
    /\ getWeight(atom) = atom.massNumber
    /\ getCharge(atom) = atom.charge

\* a removal has left two protons and one electron, charge +1
C1_Witness ==
    /\ last.op \in {"removeParticle", "extractParticle", "userControlledProperty.set"}
    /\ atom.protonCount = 2
    /\ atom.electronCount = 1
    /\ atom.neutronCount = 0
    /\ atom.charge = 1

\* C2: every electron of the electron collection occupies exactly one slot,
\* and every slot occupant is in the electron collection (a slot holds one
\* reference at most by construction).
C2_ElectronsAndSlotsAgree ==
    /\ \A e \in Members(atom.electrons) : Cardinality({i \in SlotIds : atom.shell[i] = e}) = 1
    /\ \A i \in Occupied(atom.shell) : atom.shell[i] \in Members(atom.electrons)

\* C3: an addParticle of an electron made while a slot is empty fills
\* exactly one previously empty slot with that electron, sets the electron's
\* destination to the slot's position and leaves every other slot as it was.
C3_AddFillsOneEmptySlot ==
    [][(AddedNow(Electrons) /\ Occupied(atom.shell) # SlotIds)
        => \E i \in SlotIds :
              /\ atom.shell[i] = Null
              /\ atom'.shell[i] = last'.arg
              /\ atom'.destination[last'.arg] = SlotPosition[i]
              /\ \A j \in SlotIds \ {i} : atom'.shell[j] = atom.shell[j]]_vars

\* a third electron has been placed by a shuffle, in an atom that was moved
C3_Witness ==
    /\ last.op = "addParticle" /\ last.arg \in Electrons /\ last.outcome = "ok"
    /\ electronAddMode = "random"
    /\ positionProperty # ZERO
    /\ Cardinality(Occupied(atom.shell)) = 3

\* C4: an electron added while an inner-shell slot is empty is given an
\* inner-shell slot, wherever the atom and the particle are and in both modes.
C4_InnerShellFirst ==
    [][(AddedNow(Electrons) /\ \E i \in InnerSlots : atom.shell[i] = Null)
        => \E i \in InnerSlots : atom.shell[i] = Null /\ atom'.shell[i] = last'.arg]_vars

\* C5: whenever an outer-shell slot is occupied, both inner-shell slots are.
C5_InnerFullBeforeOuter ==
    (\E i \in OuterSlots : atom.shell[i] # Null)
        => \A i \in InnerSlots : atom.shell[i] # Null

\* electron e leaves the electron collection in this step, by removeParticle,
\* extractParticle or the userControlled watcher
ElectronRemovedNow(e) ==
    /\ e \in Electrons
    /\ last'.arg = e
    /\ \/ last'.op \in {"removeParticle", "extractParticle"} /\ last'.outcome = "ok"
       \/ last'.op = "userControlledProperty.set" /\ last'.outcome = "true"
    /\ Len(atom'.electrons) < Len(atom.electrons)

\* the occupied outer slots nearest to slot i
NearestOccupiedOuter(shell, i) ==
    {n \in OuterSlots \cap Occupied(shell) :
        \A m \in OuterSlots \cap Occupied(shell) :
            DistSq(SlotPosition[n], SlotPosition[i]) <= DistSq(SlotPosition[m], SlotPosition[i])}

\* C6: when an electron that held an inner-shell slot is removed while an
\* outer-shell slot is occupied, the inner slot afterwards holds the electron
\* of the nearest occupied outer slot, that outer slot is empty, no inner
\* slot is empty, and the moved electron's destination is the inner slot's
\* position.
C6_BackfillFromNearestOuter ==
    [][\A e \in Electrons, i \in InnerSlots :
          (ElectronRemovedNow(e) /\ atom.shell[i] = e /\ NearestOccupiedOuter(atom.shell, i) # {})
            => /\ \E n \in NearestOccupiedOuter(atom.shell, i) :
                     /\ atom'.shell[i] = atom.shell[n]
                     /\ atom'.shell[n] = Null
                     /\ atom'.destination[atom.shell[n]] = SlotPosition[i]
               /\ \A j \in InnerSlots : atom'.shell[j] # Null]_vars

C8_ClearEmptiesEverything ==
    (last.op = "clear" /\ last.outcome = "ok")
        => /\ atom.protons = <<>>
           /\ atom.neutrons = <<>>
           /\ atom.electrons = <<>>
           /\ Occupied(atom.shell) = {}
           /\ \A q \in Particles : atom.linked[q] = 0

\* C9: addParticle( p ) of a particle that is already a member of one of the
\* collections leaves the atom as it was, in every brand.
C9_AddOfMemberChangesNothing ==
    [][(last'.op = "addParticle" /\ containsParticle(atom, last'.arg))
        => atom' = atom]_vars

\* the radius the nucleon configurator yields for the nucleons of s
configuredRadius(s) == Layout(Len(s.protons) + Len(s.neutrons), 0, 0).radius

\* a nucleon enters or leaves through the paths that reconfigure the nucleus:
\* an addParticle that adds, or the userControlled watcher
NucleonAddedOrEvicted ==
    \/ AddedNow(Protons \cup Neutrons)
    \/ /\ last'.op = "userControlledProperty.set"
       /\ Len(atom'.protons) + Len(atom'.neutrons) # Len(atom.protons) + Len(atom.neutrons)

\* C10 as stated: in every state nucleusRadiusProperty is the configurator's
\* radius for the nucleons present.
C10_RadiusNeverStale == atom.nucleusRadius = configuredRadius(atom)

\* C10, amended: after an addParticle that adds a nucleon and after an
\* eviction of a nucleon by the userControlled watcher, nucleusRadiusProperty
\* is the configurator's radius for the nucleons present; removeParticle,
\* extractParticle and clear leave nucleusRadiusProperty as it was.
C10_RadiusSetByAddAndEviction ==
    [][/\ NucleonAddedOrEvicted => atom'.nucleusRadius = configuredRadius(atom')
       /\ last'.op \in {"removeParticle", "extractParticle", "clear"}
            => atom'.nucleusRadius = atom.nucleusRadius]_vars

\* a held nucleon has been evicted from a nucleus of two, and the radius
\* is back to that of a single nucleon
C10_Witness ==
    /\ last.op = "userControlledProperty.set" /\ last.outcome = "true"
    /\ last.arg \in Protons \cup Neutrons
    /\ Len(atom.protons) + Len(atom.neutrons) = 1
    /\ atom.linked[last.arg] = 0
    /\ atom.nucleusRadius = nucleonRadius

\* C11: in every state between operations, a particle carries a
\* userControlled watcher of the atom if and only if it is in one of the
\* three collections.
C11_WatcherIffMember ==
    \A q \in Particles : (atom.linked[q] > 0) <=> containsParticle(atom, q)

\* C15: addParticle of an electron that is not in the atom, made when all
\* ten slots are occupied, signals an error.
C15_EleventhElectronIsAnError ==
    [][(last'.op = "addParticle" /\ TypeOf(last'.arg) = "electron"
          /\ ~containsParticle(atom, last'.arg) /\ Occupied(atom.shell) = SlotIds)
        => last'.outcome = "error"]_vars

\* the eleventh electron has been refused with the ten slots still occupied
C15_Witness ==
    /\ last.op = "addParticle" /\ last.arg = ShellFillers[NUM_ELECTRON_POSITIONS + 1]
    /\ last.outcome = "error"
    /\ Occupied(atom.shell) = SlotIds

\* every nucleon of s has the destination and layer, and s the nucleus radius,
\* that the configurator gives for the nucleons of s around c (for a particle
\* that is in the list twice, those of its last place in the list)
NucleusConfigured(s, c) ==
    LET nucleons == Interleave(s.protons, s.neutrons)
        layout == Layout(Len(nucleons), c.x, c.y)
        places == layout.placements
    IN  /\ s.nucleusRadius = layout.radius
        /\ \A i \in 1 .. Len(places) :
              (\A j \in i + 1 .. Len(places) : nucleons[places[j].n] # nucleons[places[i].n])
                => /\ s.destination[nucleons[places[i].n]] = places[i].v
                   /\ s.zLayer[nucleons[places[i].n]] = places[i].z

\* the userControlled flag of member p changes to true in this step
PickedUpNow(p) ==
    /\ last'.op = "userControlledProperty.set" /\ last'.arg = p /\ last'.outcome = "true"
    /\ containsParticle(atom, p)

\* C12: when the userControlled flag of a member changes to true, the
\* particle is out of the atom when the change returns: it is not contained,
\* the count of its collection is one less, after a nucleon the nucleus is
\* configured for the remaining nucleons, and after an electron no slot holds
\* it, an inner slot it held being refilled from the nearest occupied outer
\* slot.
C12_PickUpEvicts ==
    [][\A p \in Particles : PickedUpNow(p)
          => /\ ~containsParticle(atom', p)
             /\ Len(arrayOf(atom', TypeOf(p))) = Len(arrayOf(atom, TypeOf(p))) - 1
             /\ atom'.particleCount = atom.particleCount - 1
             /\ TypeOf(p) \in {"proton", "neutron"} => NucleusConfigured(atom', centre)
             /\ TypeOf(p) = "electron"
                  => /\ \A i \in SlotIds : atom'.shell[i] # p
                     /\ \A i \in InnerSlots :
                           (atom.shell[i] = p /\ NearestOccupiedOuter(atom.shell, i) # {})
                             => \E n \in NearestOccupiedOuter(atom.shell, i) :
                                   atom'.shell[i] = atom.shell[n] /\ atom'.shell[n] = Null]_vars

\* C13: removeParticle( p ) for a particle that is in none of the three
\* collections signals an error and leaves the collections, counts, slots,
\* destinations and watchers as they were.
C13_RemoveOfNonMemberFails ==
    [][(last'.op = "removeParticle" /\ ~containsParticle(atom, last'.arg))
        => /\ last'.outcome = "error"
           /\ atom' = atom]_vars

\* removeParticle of a particle that was never in the atom has failed, in an
\* atom that holds a nucleon and an electron
C13_Witness ==
    /\ last.op = "removeParticle" /\ last.arg \in Strangers /\ last.outcome = "error"
    /\ atom.massNumber > 0
    /\ atom.electronCount > 0
    /\ Occupied(atom.shell) # {}

\* the members of arr other than p, in the order of arr
Without(arr, p) == SelectSeq(arr, LAMBDA q : q # p)

\* C14: removeParticle( p ) for a member p takes p out of the collection
\* that holds it: p is no longer contained, that collection is what it was
\* without p, in the same order and one shorter, its count is one less, the
\* other two collections are unchanged, and p carries no watcher of the atom.
C14_RemoveTakesOneOut ==
    [][\A p \in Particles :
          (last'.op = "removeParticle" /\ last'.arg = p /\ containsParticle(atom, p))
            => /\ ~containsParticle(atom', p)
               /\ \A t \in {"proton", "neutron", "electron"} :
                     /\ arrayOf(atom', t) = Without(arrayOf(atom, t), p)
                     /\ Len(arrayOf(atom', t))
                          = Len(arrayOf(atom, t)) - (IF t = TypeOf(p) THEN 1 ELSE 0)
               /\ atom'.protonCount = Len(atom'.protons)
               /\ atom'.neutronCount = Len(atom'.neutrons)
               /\ atom'.electronCount = Len(atom'.electrons)
               /\ atom'.linked[p] = 0]_vars

\* C16: addParticle of a particle whose type is none of proton, neutron
\* and electron, and extractParticle of an unknown type, signal an error and
\* leave the collections, counts, slots and watchers as they were.
C16_UnknownTypeFails ==
    [][(\/ last'.op = "addParticle" /\ TypeOf(last'.arg) \notin {"proton", "neutron", "electron"}
        \/ last'.op = "extractParticle" /\ last'.type \notin {"proton", "neutron", "electron"})
        => /\ last'.outcome = "error"
           /\ atom' = atom]_vars

\* addParticle of a particle of an unknown type has failed in an atom that
\* holds a nucleon and an electron
C16_Witness ==
    /\ last.op = "addParticle" /\ last.arg \in Strangers /\ last.outcome = "error"
    /\ atom.massNumber > 0
    /\ Occupied(atom.shell) # {}

\* C17: extractParticle( type ) on a non-empty collection of that type
\* returns the member at the last index and removes it: the collection loses
\* its last element, the particle is not contained and carries no watcher of
\* the atom; on an empty collection it returns null and changes nothing.
C17_ExtractTakesTheLast ==
    [][\A t \in {"proton", "neutron", "electron"} :
          (last'.op = "extractParticle" /\ last'.type = t)
            => IF Len(arrayOf(atom, t)) > 0
               THEN /\ last'.arg = arrayOf(atom, t)[Len(arrayOf(atom, t))]
                    /\ arrayOf(atom', t) = SubSeq(arrayOf(atom, t), 1, Len(arrayOf(atom, t)) - 1)
                    /\ ~containsParticle(atom', last'.arg)
                    /\ atom'.linked[last'.arg] = 0
               ELSE /\ last'.arg = Null
                    /\ last'.outcome = "ok"
                    /\ atom' = atom]_vars

\* C18: an addParticle that adds a proton or a neutron appends it to the end
\* of its collection, links a userControlled watcher to it, and leaves every
\* nucleon with the destination and layer, and nucleusRadiusProperty with the
\* radius, that the configurator gives for the new membership.
C18_AddNucleonConfigures ==
    [][\A p \in Protons \cup Neutrons :
          (AddedNow({p}))
            => /\ arrayOf(atom', TypeOf(p)) = Append(arrayOf(atom, TypeOf(p)), p)
               /\ TypeOf(p) = "proton" => atom'.neutrons = atom.neutrons
               /\ TypeOf(p) = "neutron" => atom'.protons = atom.protons
               /\ atom'.linked[p] = atom.linked[p] + 1
               /\ atom'.removalListener[p]
               /\ NucleusConfigured(atom', centre)]_vars

\* a neutron has been added as the third nucleon of an atom whose nucleus
\* is not centred at the origin
C18_Witness ==
    /\ last.op = "addParticle" /\ last.arg \in Neutrons /\ last.outcome = "ok"
    /\ atom.protons = <<"p1", "p2">>
    /\ Len(atom.neutrons) = 1
    /\ centre # ZERO

\* the change of the atom position or of the nucleus offset made in this step
TranslationNow ==
    plus(minus(positionProperty', positionProperty),
         minus(nucleusOffsetProperty', nucleusOffsetProperty))

C19_ObservedCountsAgree ==
    \A g \in observed :
        /\ g.protonCount + g.neutronCount + g.electronCount = g.particleCount
        /\ g.protonCount - g.electronCount = g.charge

\* the operation before this step has configured the nucleus as its last
\* effect: reconfigureNucleus() itself, or an addParticle that added a nucleon
JustConfigured ==
    \/ last.op = "reconfigureNucleus"
    \/ last.op = "addParticle" /\ last.outcome = "ok" /\ TypeOf(last.arg) \in {"proton", "neutron"}

\* C21: reconfigureNucleus() called when the operation before it has
\* configured the nucleus, with the membership, the position and the offset
\* unchanged since, leaves every destination, every display layer and
\* nucleusRadiusProperty as they were.
C21_ReconfigureIsIdempotent ==
    [][(last'.op = "reconfigureNucleus" /\ JustConfigured)
        => /\ atom'.destination = atom.destination
           /\ atom'.zLayer = atom.zLayer
           /\ atom'.nucleusRadius = atom.nucleusRadius]_vars

\* reconfigureNucleus() has been called straight after itself on a nucleus
\* of five or more nucleons that is not centred at the origin
C21_Witness ==
    /\ last.op = "reconfigureNucleus" /\ last.after = "reconfigureNucleus"
    /\ Len(atom.protons) + Len(atom.neutrons) >= 5
    /\ centre # ZERO

\* the points v and w lie opposite each other about the point c
PointSymmetric(v, w, c) ==
    /\ v.x = c.x /\ v.y = c.y /\ w.x = c.x /\ w.y = c.y
    /\ v.r = w.r
    /\ v.r # 0 => (v.a - w.a) % (2 * AngleDen) = AngleDen

RECURSIVE ringRadius(_)
\* the placement radius of ring k: ring 0 is the centre, and ring k lies
\* nucleonRadius x scaleFactor / k further out than ring k - 1
ringRadius(k) ==
    IF k = 0 THEN 0
    ELSE ringRadius(k - 1) + ((nucleonRadius * scaleFactor(nucleonRadius)) \div 1000) \div k

\* floor( ringRadius_k x pi / nucleonRadius )
ringCapacity(k) == numAtRadius(ringRadius(k), nucleonRadius)

C24_RadiusOfLastRing ==
    (JustConfigured /\ Len(atom.protons) + Len(atom.neutrons) >= 5)
        => LET nucleons == Interleave(atom.protons, atom.neutrons)
           IN  atom.nucleusRadius
                   = atom.destination[nucleons[Len(nucleons)]].r + nucleonRadius

\* C25: moveAllParticlesToDestination() makes the position of every member
\* proton, neutron and electron equal to its destination, and changes no
\* destination, no collection, no slot and no count.
C25_MoveAllSnapsMembers ==
    [][(last'.op = "moveAllParticlesToDestination")
        => /\ \A q \in Particles :
                 containsParticle(atom, q) => atom'.position[q] = atom.destination[q]
           /\ atom'.destination = atom.destination
           /\ atom'.protons = atom.protons
           /\ atom'.neutrons = atom.neutrons
           /\ atom'.electrons = atom.electrons
           /\ atom'.shell = atom.shell
           /\ atom'.protonCount = atom.protonCount
           /\ atom'.neutronCount = atom.neutronCount
           /\ atom'.electronCount = atom.electronCount
           /\ atom'.charge = atom.charge
           /\ atom'.massNumber = atom.massNumber
           /\ atom'.particleCount = atom.particleCount]_vars

\* a nucleon and an electron of the atom have been moved from where they lay
\* to their destinations
C25_Witness ==
    /\ last.op = "moveAllParticlesToDestination"
    /\ \E q \in Members(atom.protons) \cup Members(atom.neutrons), e \in Members(atom.electrons) :
          /\ atom.position[q] = atom.destination[q] /\ atom.position[q] # InitialPosition[q]
          /\ atom.position[e] = atom.destination[e] /\ atom.position[e] # InitialPosition[e]

\* C27: removeParticle, extractParticle and clear leave nucleusRadiusProperty
\* and the destination and display layer of every nucleon that remains in the
\* atom as they were before the call.
C27_RemovalNeverReconfigures ==
    [][(last'.op \in {"removeParticle", "extractParticle", "clear"})
        => /\ atom'.nucleusRadius = atom.nucleusRadius
           /\ \A q \in Members(atom'.protons) \cup Members(atom'.neutrons) :
                 /\ atom'.destination[q] = atom.destination[q]
                 /\ atom'.zLayer[q] = atom.zLayer[q]]_vars

\* a removal has left one nucleon of two, away from the centre and with
\* the radius of a nucleus of two
C27_Witness ==
    /\ last.op \in {"removeParticle", "extractParticle", "clear"} /\ last.outcome = "ok"
    /\ Len(atom.protons) + Len(atom.neutrons) = 1
    /\ atom.nucleusRadius = 2 * nucleonRadius
    /\ \A q \in Members(atom.protons) \cup Members(atom.neutrons) :
          atom.destination[q].r = nucleonRadius

\* C28: the interleaved nucleon list of reconfigureNucleus is as long as the
\* two collections together, its protons are the proton collection in that
\* collection's order and its neutrons are the neutron collection in that
\* collection's order.
C28_InterleaveIsAPermutation ==
    LET nucleons == Interleave(atom.protons, atom.neutrons)
    IN  /\ Len(nucleons) = Len(atom.protons) + Len(atom.neutrons)
        /\ SelectSeq(nucleons, LAMBDA q : TypeOf(q) = "proton") = atom.protons
        /\ SelectSeq(nucleons, LAMBDA q : TypeOf(q) = "neutron") = atom.neutrons

\* the nucleus of three protons and two neutrons has been configured, with
\* a list that starts with a proton, ends with a neutron and has the other
\* neutron between two protons
C28_Witness ==
    /\ JustConfigured
    /\ Len(atom.protons) = 3 /\ Len(atom.neutrons) = 2
    /\ LET nucleons == Interleave(atom.protons, atom.neutrons)
       IN  /\ TypeOf(nucleons[1]) = "proton"
           /\ TypeOf(nucleons[5]) = "neutron"
           /\ \E i \in 2 .. 4 : /\ TypeOf(nucleons[i - 1]) = "proton"
                                  /\ TypeOf(nucleons[i]) = "neutron"
                                  /\ TypeOf(nucleons[i + 1]) = "proton"

\* C29: the interleaving loop of reconfigureNucleus ends for every pair of
\* proton and neutron counts, no protons, no neutrons and neither included:
\* its outer loop makes no more passes than there are nucleons (and its inner
\* loop no more than there are neutrons, which its index guard says).
C29_InterleaveTerminates ==
    LET passes == InterleavePasses(atom.protons, atom.neutrons)
    IN  /\ passes >= 0
        /\ passes <= Len(atom.protons) + Len(atom.neutrons)
        /\ (Len(atom.protons) = 0 /\ Len(atom.neutrons) > 0) => passes = 1

\* a nucleus of neutrons alone has been configured: neutronsPerProton is
\* a division by zero, and one pass has pushed every neutron
C29_Witness ==
    /\ JustConfigured
    /\ Len(atom.protons) = 0
    /\ Len(atom.neutrons) >= 3
    /\ InterleavePasses(atom.protons, atom.neutrons) = 1
    /\ Interleave(atom.protons, atom.neutrons) = atom.neutrons

\* the empty slots of the innermost shell that has an empty slot
InnermostEmpty(shell) ==
    IF \E i \in InnerSlots : shell[i] = Null
    THEN {i \in InnerSlots : shell[i] = Null}
    ELSE {i \in OuterSlots : shell[i] = Null}

C26_NoParticleInTwoAtoms ==
    \A q \in Particles : ~(containsParticle(atom, q) /\ containsParticle(atomB, q))

\* C37: when there are at least as many neutrons as protons and at least one
\* proton, no two protons are next to each other in the interleaved nucleon
\* list of reconfigureNucleus, and the list starts with a neutron.
C37_NoAdjacentProtons ==
    (Len(atom.neutrons) >= Len(atom.protons) /\ Len(atom.protons) >= 1)
        => LET nucleons == Interleave(atom.protons, atom.neutrons)
           IN  /\ TypeOf(nucleons[1]) = "neutron"
               /\ \A i \in 1 .. Len(nucleons) - 1 :
                     ~(TypeOf(nucleons[i]) = "proton" /\ TypeOf(nucleons[i + 1]) = "proton")

\* a nucleus of four protons and five neutrons has been configured
C37_Witness ==
    /\ JustConfigured
    /\ Len(atom.protons) = 4
    /\ Len(atom.neutrons) = 5
    /\ TypeOf(Interleave(atom.protons, atom.neutrons)[9]) = "proton"

\* C35: a change of positionProperty or of nucleusOffsetProperty leaves the
\* position and the destination of every electron, the occupant of every slot
\* (the slots' positions are fixed at construction), the three collections
\* and nucleusRadiusProperty as they were.
C35_TranslationLeavesTheRest ==
    [][(last'.op \in {"positionProperty.set", "nucleusOffsetProperty.set"})
        => /\ \A e \in Electrons \cup MoreElectrons :
                 /\ atom'.position[e] = atom.position[e]
                 /\ atom'.destination[e] = atom.destination[e]
           /\ atom'.shell = atom.shell
           /\ atom'.protons = atom.protons
           /\ atom'.neutrons = atom.neutrons
           /\ atom'.electrons = atom.electrons
           /\ atom'.nucleusRadius = atom.nucleusRadius]_vars

\* the nucleus offset has been changed in an atom of a nucleon and an
\* electron that lies in its slot
C35_Witness ==
    /\ last.op = "nucleusOffsetProperty.set"
    /\ nucleusOffsetProperty # ZERO
    /\ Len(atom.protons) + Len(atom.neutrons) = 1
    /\ \E i \in SlotIds :
          /\ atom.shell[i] \in Members(atom.electrons)
          /\ atom.position[atom.shell[i]] = SlotPosition[i]

C36_OnlyPickUpEvicts ==
    [][/\ (/\ last'.op = "addParticle"
           /\ TypeOf(last'.arg) \in {"proton", "neutron", "electron"}
           /\ userControlled[last'.arg])
            => containsParticle(atom', last'.arg)
       /\ (last'.op = "userControlledProperty.set" /\ last'.outcome = "false")
            => /\ atom'.protons = atom.protons
               /\ atom'.neutrons = atom.neutrons
               /\ atom'.electrons = atom.electrons
               /\ atom'.shell = atom.shell
               /\ atom'.destination = atom.destination
               /\ atom'.zLayer = atom.zLayer
               /\ atom'.nucleusRadius = atom.nucleusRadius
               /\ atom'.particleCount = atom.particleCount]_vars

\* a particle that was added while its flag was true has been let go and is
\* a member still
C36_Witness ==
    /\ last.op = "userControlledProperty.set"
    /\ last.outcome = "false"
    /\ containsParticle(atom, last.arg)

\* the cells that are highlighted
HighlightedCells == {cells[k] : k \in table.highlighted}

\* C32: for every proton count from 1 to 118, the cell that is highlighted
\* is the cell that was constructed with that count as its atomic number.
C32_HighlightsTheElement ==
    table.protonCount \in 1 .. HeaviestElement
        => /\ table.highlightedCell # 0
           /\ cells[table.highlightedCell].atomicNumber = table.protonCount
           /\ \A c \in HighlightedCells : c.atomicNumber = table.protonCount
           /\ HighlightedCells # {}

\* C38: at most one cell is highlighted, and none is when the proton count
\* is 0 or above 118.
C38_AtMostOneHighlighted ==
    /\ Cardinality(table.highlighted) <= 1
    /\ (table.protonCount = 0 \/ table.protonCount > HeaviestElement)
         => table.highlighted = {}

\* the proton count has left the table's range after a cell was highlighted
C38_Witness ==
    /\ table.protonCount > HeaviestElement
    /\ table.highlightedCell # 0
    /\ table.highlighted = {}

\* the particles that have a listener with either emitter of v
Listening(v) ==
    {v.optionSelectedListeners[k].particle : k \in 1 .. Len(v.optionSelectedListeners)}
        \cup {v.optionHighlightedListeners[k].particle :
                 k \in 1 .. Len(v.optionHighlightedListeners)}

\* in this step a key reaches the view and no key changes a particle of S
KeysLeaveAlone(S) ==
    last'.op = "keydown"
        => \A p \in S : /\ shellView'.position[p] = shellView.position[p]
                        /\ shellView'.userControlled[p] = shellView.userControlled[p]

\* C33 as it is stated: once a place key has been handled for a particle, no
\* later key changes its position or its userControlled flag, whatever calls
\* of handleAccessibleDrag and key events follow.
C33_PlacedForGood ==
    [][KeysLeaveAlone(shellView.placed)]_vars

\* C33: a place key sets the userControlled flag of every particle that has
\* listeners to false and removes the listeners of both emitters, and until
\* handleAccessibleDrag is called for such a particle again, no key changes
\* its position or its userControlled flag.
C33_PlacedUntilDraggedAgain ==
    [][/\ (last'.op = "keydown" /\ last'.outcome = "place")
            => /\ Listening(shellView') = {}
               /\ Listening(shellView) \subseteq shellView'.settled
               /\ \A p \in Listening(shellView) : ~shellView'.userControlled[p]
       /\ shellView'.settled \cap Listening(shellView') = {}
       /\ KeysLeaveAlone(shellView.settled)]_vars

\* an arrow key has moved a particle that is being placed, after another
\* particle was placed and then picked up again by other means
C33_Witness ==
    /\ last.op = "keydown"
    /\ last.outcome = "arrow"
    /\ \E p \in shellView.settled :
          /\ shellView.userControlled[p]
          /\ shellView.position[p] # InitialPosition[p]
    /\ \E q \in Listening(shellView) : shellView.position[q] = particleDropLocation[1]

====
